---- MODULE Spec2Model ----
(***************************************************************************)
(* Model of update.go of hanjm/phonenumbers: the prefix-map encoders       *)
(* (intStringArrayMapToString and the per-language encoder of              *)
(* buildPrefixData), the parsers (readMappingsForDir, buildTimezones,      *)
(* buildPrefixData) and the refresh daemon (InitAutoUpdateDaemon,          *)
(* initFromCache, update, storeFileCache, atomicReplaceeMetadataVar,       *)
(* getVersion).                                                            *)
(*                                                                         *)
(* The specifications of the module:                                       *)
(*   SpecCodec     applies the encoders to maps drawn from bounded sets;   *)
(*   SpecBoundary  the same, with the maps at the uint16 boundary;         *)
(*   SpecParse     applies the parsers to texts and trees drawn from       *)
(*                 bounded sets;                                           *)
(*   Spec          runs the daemon: calls of InitAutoUpdateDaemon, timer   *)
(*                 goroutines, process crashes, a shutdown request;        *)
(*   SpecReader    one call of InitAutoUpdateDaemon and a reader of the    *)
(*                 published variables;                                    *)
(*   SpecVersion   one call of InitAutoUpdateDaemon and callers of         *)
(*                 getVersion.                                             *)
(***************************************************************************)
EXTENDS Integers, Sequences, FiniteSets, TLC

(***************************************************************************)
(* Bounds of the model.                                                    *)
(***************************************************************************)
\* keys of a small input map
MaxKeys == 2
\* values in one key's list of a small input map
MaxVals == 2

\* calls of InitAutoUpdateDaemon in one life of the process
MaxDaemons == 2
\* snapshots that fetchLatestMetadata builds
MaxBuilds == 2
\* crashes of the process
MaxCrashes == 1

\* *.txt files in one language directory
MaxFiles == 2
\* lines in one text
MaxLines == 2

(***************************************************************************)
(* Program constants.                                                      *)
(***************************************************************************)
\* math.MaxUint16
MaxUint16 == 65535
\* intBuf := make([]byte, 6)
IntBufLen == 6
\* the published variables that atomicReplaceeMetadataVar stores
NumFields == 6
\* "2019-11-12T00:00:00Z" of getVersion, as a version: older than the version
\* of every snapshot (versions are numbered as the snapshots)
DefaultVersion == -1

(***************************************************************************)
(* Strings.  A string without a line break is modelled by a code: code 0   *)
(* is the empty string, code c > 0 is the four-letter string that spells   *)
(* c-1 in base 16 with the letters 'A'..'P'.  The byte-wise order that     *)
(* sort.Strings uses on these strings is the numeric order of the codes.   *)
(* Values that reach the encoders never hold a line break: every parser    *)
(* of update.go splits its input on "\n" first.                            *)
(***************************************************************************)
NewLine == 10

StrBytes(c) ==
    IF c = 0 THEN <<>>
    ELSE LET n == c - 1
         IN  << 65 + ((n \div 4096) % 16), 65 + ((n \div 256) % 16),
                65 + ((n \div 16) % 16), 65 + (n % 16) >>

Range(s) == { s[i] : i \in 1..Len(s) }

\* concatenation of f[lo], ..., f[hi]
RECURSIVE Cat(_, _, _)
Cat(f, lo, hi) ==
    IF lo > hi THEN <<>>
    ELSE IF lo = hi THEN f[lo]
    ELSE LET mid == (lo + hi) \div 2
         IN  Cat(f, lo, mid) \o Cat(f, mid + 1, hi)

(***************************************************************************)
(* Fixed-width writes of encoding/binary (binary.LittleEndian) and the     *)
(* conversions uint8(), uint16(), uint32() in front of them.               *)
(***************************************************************************)
U8(n) == << n % 256 >>

U16LE(n) == << n % 256, (n \div 256) % 256 >>

U32LE(n) == << n % 256, (n \div 256) % 256, (n \div 65536) % 256,
               (n \div 16777216) % 256 >>

(***************************************************************************)
(* binary.PutUvarint(intBuf, uint64(diff)).  A negative diff converts to   *)
(* a uint64 of 2^64 + diff, whose varint has ten bytes; a diff of 2^42 or  *)
(* more has seven or more (such keys are outside the model's integers).    *)
(* PutUvarint panics (index out of range) when the varint does not fit     *)
(* the buffer.                                                             *)
(***************************************************************************)
RECURSIVE Uvarint(_)
Uvarint(x) ==
    IF x < 128 THEN << x >> ELSE << 128 + (x % 128) >> \o Uvarint(x \div 128)

UvarintLen(diff) == IF diff < 0 THEN 10 ELSE Len(Uvarint(diff))

PutUvarintPanics(diff) == UvarintLen(diff) > IntBufLen

(***************************************************************************)
(* sort.Ints and sort.Strings: ascending order.  String codes compare as   *)
(* the strings they stand for.                                             *)
(***************************************************************************)
\* sortInts with the sort left out
sortIntsSkipped(keys) == keys

sortInts(keys) == SortSeq(keys, LAMBDA a, b : a < b)

sortStrings(values) == SortSeq(values, LAMBDA a, b : a < b)

(***************************************************************************)
(* The collecting loop of both encoders: every value is appended to        *)
(* `values` the first time it is seen.  FirstSeen(all, lo, hi) is the list *)
(* all[lo..hi] with each value kept at its first occurrence only.          *)
(***************************************************************************)
RECURSIVE FirstSeen(_, _, _)
FirstSeen(all, lo, hi) ==
    IF lo > hi THEN <<>>
    ELSE IF lo = hi THEN << all[lo] >>
    ELSE LET mid  == (lo + hi) \div 2
             a    == FirstSeen(all, lo, mid)
             b    == FirstSeen(all, mid + 1, hi)
             seen == Range(a)
         IN  a \o SelectSeq(b, LAMBDA v : v \notin seen)

(***************************************************************************)
(* for i, v := range values { internMap[v] = i }: a later index overwrites *)
(* an earlier one.                                                         *)
(***************************************************************************)
RECURSIVE Intern(_, _, _)
Intern(values, lo, hi) ==
    IF lo = hi THEN values[lo] :> (lo - 1)
    ELSE LET mid == (lo + hi) \div 2
         IN  Intern(values, mid + 1, hi) @@ Intern(values, lo, mid)

internMapOf(values) ==
    IF Len(values) = 0 THEN <<>> ELSE Intern(values, 1, Len(values))

\* strings.Join(values, "\n") as bytes
joinValues(values) ==
    Cat([i \in 1..Len(values) |->
            IF i < Len(values) THEN StrBytes(values[i]) \o << NewLine >>
            ELSE StrBytes(values[i])], 1, Len(values))

(***************************************************************************)
(* gzipBytesAndBase64: compress/gzip and encoding/base64 are lossless      *)
(* library transforms; the text they produce is modelled by the bytes it   *)
(* unpacks to, wrapped so that only an unpacking reader gets at them.      *)
(***************************************************************************)
gzipBytesAndBase64(data) == [gzipBase64 |-> data]

(***************************************************************************)
(* intStringArrayMapToString(prefixMap).  iter is the order in which       *)
(* `range prefixMap` visits the keys (any permutation of them).            *)
(* The result is (dst, err), or a panic of PutUvarint.                     *)
(***************************************************************************)
intStringArrayMapToString(prefixMap, iter) ==
    LET n        == Len(iter)
        keys0    == iter
        all      == Cat([i \in 1..n |-> prefixMap[iter[i]]], 1, n)
        values0  == FirstSeen(all, 1, Len(all))
        values   == sortStrings(values0)
        keys     == sortInts(keys0)
        internMap == internMapOf(values)
        joinedValues == joinValues(values)
        last(i)  == IF i = 1 THEN 0 ELSE keys[i - 1]
        diff(i)  == keys[i] - last(i)
        entry(i) ==
            LET vs == prefixMap[keys[i]]
            IN  Uvarint(diff(i)) \o U8(Len(vs))
                  \o Cat([j \in 1..Len(vs) |-> U16LE(internMap[vs[j]])],
                         1, Len(vs))
        data     == U32LE(Len(joinedValues)) \o joinedValues
                      \o U32LE(Len(keys))
                      \o Cat([i \in 1..Len(keys) |-> entry(i)], 1, Len(keys))
    IN  IF \E i \in 1..Len(keys) : PutUvarintPanics(diff(i))
        THEN [panic |-> TRUE, err |-> "nil", dst |-> gzipBytesAndBase64(<<>>)]
        ELSE [panic |-> FALSE, err |-> "nil", dst |-> gzipBytesAndBase64(data)]


\* fmt.Errorf("too many values to represent in uint16")
ErrTooManyValues == "too many values to represent in uint16"

(***************************************************************************)
(* The encoding loop of buildPrefixData for one language:                  *)
(* `for lang, mappings := range languageMappings { ... }`, lines 479-551.  *)
(* mappings has one value per prefix; iter is the order in which           *)
(* `range mappings` visits the prefixes.                                   *)
(***************************************************************************)
encodeMappings(mappings, iter) ==
    LET n         == Len(iter)
        prefixes0 == iter
        all       == [i \in 1..n |-> mappings[iter[i]]]
        values0   == FirstSeen(all, 1, n)
        prefixes  == sortInts(prefixes0)
        values    == sortStrings(values0)
        mapped    == internMapOf(values)
        internMappings == [v \in DOMAIN mapped |-> mapped[v] % 65536]
        joinedValues == joinValues(values)
        last(i)   == IF i = 1 THEN 0 ELSE prefixes[i - 1]
        diff(i)   == prefixes[i] - last(i)
        entry(i)  == Uvarint(diff(i))
                       \o U16LE(internMappings[mappings[prefixes[i]]])
        data      == U32LE(Len(joinedValues)) \o joinedValues
                       \o U32LE(Len(prefixes))
                       \o Cat([i \in 1..Len(prefixes) |-> entry(i)],
                              1, Len(prefixes))
    IN  IF Len(values0) > MaxUint16
        THEN [panic |-> FALSE, err |-> ErrTooManyValues,
              dst |-> gzipBytesAndBase64(<<>>)]
        ELSE IF \E i \in 1..Len(prefixes) : PutUvarintPanics(diff(i))
        THEN [panic |-> TRUE, err |-> "nil", dst |-> gzipBytesAndBase64(<<>>)]
        ELSE [panic |-> FALSE, err |-> "nil", dst |-> gzipBytesAndBase64(data)]


(***************************************************************************)
(* The decoder of the codec: unpack, read the value block and split it on  *)
(* "\n" into the intern table, read the key count, then per entry the      *)
(* varint key delta and either a 1-byte count with that many 2-byte        *)
(* indices (multi) or one 2-byte index (single).  An index outside the     *)
(* table or an input that ends early is CorruptEncoding.                   *)
(***************************************************************************)
ReadU16(b, p) == b[p] + 256 * b[p + 1]

ReadU32(b, p) == b[p] + 256 * b[p + 1] + 65536 * b[p + 2] + 16777216 * b[p + 3]

\* strings.Split(block, "\n"): the pieces of b[lo..hi] between the line
\* breaks (an empty block gives one empty piece)
RECURSIVE SplitLines(_, _, _)
SplitLines(b, lo, hi) ==
    IF lo > hi THEN << <<>> >>
    ELSE IF lo = hi
    THEN IF b[lo] = NewLine THEN << <<>>, <<>> >> ELSE << << b[lo] >> >>
    ELSE LET mid == (lo + hi) \div 2
             l   == SplitLines(b, lo, mid)
             r   == SplitLines(b, mid + 1, hi)
         IN  SubSeq(l, 1, Len(l) - 1) \o << l[Len(l)] \o r[1] >> \o Tail(r)

RECURSIVE ReadUvarint(_, _)
ReadUvarint(b, p) ==
    IF p > Len(b) THEN [ok |-> FALSE, val |-> 0, next |-> p]
    ELSE IF b[p] < 128 THEN [ok |-> TRUE, val |-> b[p], next |-> p + 1]
    ELSE LET r == ReadUvarint(b, p + 1)
         IN  [ok |-> r.ok, val |-> (b[p] - 128) + 128 * r.val, next |-> r.next]

\* the indices at p, p+2, ... (cnt of them) resolved through the table
ReadValues(b, p, cnt, table) ==
    [j \in 1..cnt |-> table[ReadU16(b, p + 2 * (j - 1)) + 1]]

ValuesOk(b, p, cnt, table) ==
    /\ p + 2 * cnt - 1 <= Len(b)
    /\ \A j \in 1..cnt : ReadU16(b, p + 2 * (j - 1)) < Len(table)

RECURSIVE DecodeEntries(_, _, _, _, _, _, _)
DecodeEntries(b, p, left, lastKey, table, multi, acc) ==
    IF left = 0 THEN [ok |-> TRUE, map |-> acc]
    ELSE LET d == ReadUvarint(b, p)
         IN  IF ~d.ok \/ (multi /\ d.next > Len(b))
             THEN [ok |-> FALSE, map |-> <<>>]
             ELSE LET key == lastKey + d.val
                      cnt == IF multi THEN b[d.next] ELSE 1
                      q   == IF multi THEN d.next + 1 ELSE d.next
                  IN  IF ~ValuesOk(b, q, cnt, table)
                      THEN [ok |-> FALSE, map |-> <<>>]
                      ELSE LET vs == ReadValues(b, q, cnt, table)
                               v  == IF multi THEN vs ELSE vs[1]
                           IN  DecodeEntries(b, q + 2 * cnt, left - 1, key, table,
                                             multi, (key :> v) @@ acc)

decode(blob, multi) ==
    LET b == blob.gzipBase64
    IN  IF Len(b) < 4 \/ Len(b) < 8 + ReadU32(b, 1)
        THEN [ok |-> FALSE, map |-> <<>>]
        ELSE LET blockLen == ReadU32(b, 1)
                 table    == SplitLines(b, 5, 4 + blockLen)
                 count    == ReadU32(b, 5 + blockLen)
             IN  DecodeEntries(b, 9 + blockLen, count, 0, table, multi, <<>>)

(***************************************************************************)
(* The inputs of the encoders.                                             *)
(*   small: a map with at most MaxKeys keys from SmallKeys, each with a    *)
(*          list of 1..MaxVals strings from SmallStrings;                  *)
(*   dense: the keys 1..n, key i with the one string of code i             *)
(*          (n distinct values);                                           *)
(*   wide:  the key 1 with the n strings of code 1..n.                     *)
(* The large inputs are kept in the state by their description.            *)
(***************************************************************************)
SmallKeys == { -1, 0, 1, 300 }

\* "" and "AAAA"
SmallStrings == { 0, 1 }

ValueLists == UNION { [1..l -> SmallStrings] : l \in 1..MaxVals }

SmallMaps ==
    UNION { [K -> ValueLists] :
              K \in { K \in SUBSET SmallKeys : Cardinality(K) <= MaxKeys } }

DenseSizes == { MaxUint16, MaxUint16 + 1 }

WideSizes == { 255, 256 }

Inputs ==
    { [kind |-> "small", n |-> 0, m |-> m] : m \in SmallMaps }
      \cup { [kind |-> "dense", n |-> n, m |-> <<>>] : n \in DenseSizes }
      \cup { [kind |-> "wide", n |-> n, m |-> <<>>] : n \in WideSizes }

\* the map an input describes: key -> list of string codes
PrefixMapOf(in) ==
    CASE in.kind = "small" -> in.m
      [] in.kind = "dense" -> [i \in 1..in.n |-> << i >>]
      [] in.kind = "wide"  -> [k \in {1} |-> [j \in 1..in.n |-> j]]

\* the one-value-per-prefix map of buildPrefixData that an input describes
MappingsOf(in) ==
    LET pm == PrefixMapOf(in) IN [k \in DOMAIN pm |-> pm[k][1]]

\* the keys of an input in ascending order
RECURSIVE KeyList(_)
KeyList(K) ==
    IF K = {} THEN <<>>
    ELSE LET k == CHOOSE x \in K : \A y \in K : x <= y
         IN  << k >> \o KeyList(K \ {k})

KeysAscending(in) ==
    CASE in.kind = "small" -> KeyList(DOMAIN in.m)
      [] in.kind = "dense" -> [i \in 1..in.n |-> i]
      [] in.kind = "wide"  -> << 1 >>

(***************************************************************************)
(* The order in which a `range` over a Go map visits its keys is not       *)
(* specified.  An order is described by a reversal and a rotation of the   *)
(* ascending key list; the large inputs are visited in ascending order.    *)
(***************************************************************************)
Orders == [rev : BOOLEAN, rot : 0..(MaxKeys - 1)]

OrdersOf(in) ==
    IF in.kind = "small" THEN Orders ELSE { [rev |-> FALSE, rot |-> 0] }

RangeOrder(in, ord) ==
    LET asc == KeysAscending(in)
        n   == Len(asc)
    IN  IF ~ord.rev /\ ord.rot = 0 THEN asc
        ELSE [i \in 1..n |->
                LET j == ((i - 1 + ord.rot) % n) + 1
                IN  IF ord.rev THEN asc[n + 1 - j] ELSE asc[j]]


(***************************************************************************)
(* State of SpecCodec: one call of an encoder.                             *)
(*   encoder  "multi" (intStringArrayMapToString) or "single" (the loop    *)
(*            of buildPrefixData)                                          *)
(*   input    the description of the argument map                          *)
(*   order    the order in which `range` visits its keys                   *)
(*   cpc      "call" before the call, "returned" after it                  *)
(*   ret      what the call returned: whether it panicked, err, and the    *)
(*            length of the unpacked dst.  dst itself is the state         *)
(*            function Result.dst (the encoders are pure).                 *)
(***************************************************************************)
VARIABLES encoder, input, order, cpc, ret

(***************************************************************************)
(* State of Spec: the process that runs the refresh daemon.                *)
(*   pc        where each call of InitAutoUpdateDaemon (and then the       *)
(*             goroutine it starts) stands                                 *)
(*   mode      "startup" until the goroutine runs, then "timer"            *)
(*   m         the snapshot (a metadataRaw) the call holds                 *)
(*   pidx      how many of the stores of atomicReplaceeMetadataVar are     *)
(*             done                                                        *)
(*   seen      what initFromCache found in the cache file                  *)
(*   stepFailed, stored, result   the current update(): whether a build or *)
(*             persist step failed, whether it stored to a published       *)
(*             variable, and what it returned                              *)
(*   pub       the published variables _metadataData, _regionMapData,      *)
(*             _timezoneMapData, _carrierMapData, _geocodingMapData,       *)
(*             _version, each by the snapshot its value came from          *)
(*   file      the cache file                                              *)
(*   unloadable  the snapshots loadDataAndAtomicReplaceVar fails on        *)
(*   builds    snapshots built so far                                      *)
(*   rpc, obs  a reader: how many variables it has loaded, and what it saw *)
(*   vpc, vret a caller of getVersion: where it stands, what it returned   *)
(*   crashes   crashes so far                                              *)
(*   closed    whether the host has asked for shutdown                     *)
(* A snapshot is named by a number: 0 is what the variables hold before    *)
(* any publish, 1 is the snapshot in the cache file when the model starts, *)
(* 2, 3, ... are the snapshots built, in the order of their Version        *)
(* (time.Now() at the end of fetchLatestMetadata).                         *)
(***************************************************************************)
VARIABLES pc, mode, m, pidx, seen, stepFailed, stored, result,
          pub, file, unloadable, builds, rpc, obs, vpc, vret, crashes, closed

codecVars == << encoder, input, order, cpc, ret >>

daemonVars == << pc, mode, m, pidx, seen, stepFailed, stored, result,
                 pub, file, unloadable, builds, rpc, obs, vpc, vret, crashes,
                 closed >>

vars == << codecVars, daemonVars >>

Daemons == 1..MaxDaemons

\* 1 _metadataData, 2 _regionMapData, 3 _timezoneMapData, 4 _carrierMapData,
\* 5 _geocodingMapData, 6 _version: the order of the stores
Fields == 1..NumFields

NoRet == [panic |-> FALSE, err |-> "nil", len |-> 0]

\* what a call of InitAutoUpdateDaemon has seen of the cache file: nothing
\* yet, an error of readFromFileCache, or the snapshot id that
\* loadDataAndAtomicReplaceVar accepted or rejected
NotRead == [state |-> "none", id |-> 0]

\* the process before InitAutoUpdateDaemon is called, with cache file f
ProcessStart(f) ==
    /\ pc = [d \in Daemons |-> "idle"]
    /\ mode = [d \in Daemons |-> "startup"]
    /\ m = [d \in Daemons |-> 0]
    /\ pidx = [d \in Daemons |-> 0]
    /\ seen = [d \in Daemons |-> NotRead]
    /\ stepFailed = [d \in Daemons |-> FALSE]
    /\ stored = [d \in Daemons |-> FALSE]
    /\ result = [d \in Daemons |-> "none"]
    /\ pub = [f2 \in Fields |-> 0]
    /\ file = f
    /\ builds = 0
    /\ rpc = 0
    /\ obs = [f2 \in Fields |-> 0]
    /\ vpc = "idle"
    /\ vret = 0
    /\ crashes = 0
    /\ closed = FALSE

NoFile == [state |-> "absent", id |-> 0]

\* no encoder call is modelled in Spec
NoCall ==
    /\ encoder = "multi"
    /\ input = [kind |-> "small", n |-> 0, m |-> <<>>]
    /\ order = [rev |-> FALSE, rot |-> 0]
    /\ cpc = "none"
    /\ ret = NoRet

\* buildPrefixData encodes what readMappingsForDir read: one value per
\* prefix, no negative prefix
SingleInputs ==
    { in \in Inputs :
        /\ in.kind # "wide"
        /\ in.kind = "small" =>
             \A k \in DOMAIN in.m : k >= 0 /\ Len(in.m[k]) = 1 }

Encode(enc, in, ord) ==
    IF enc = "multi"
    THEN intStringArrayMapToString(PrefixMapOf(in), RangeOrder(in, ord))
    ELSE encodeMappings(MappingsOf(in), RangeOrder(in, ord))

Result == Encode(encoder, input, order)

Returned(r) == [panic |-> r.panic, err |-> r.err, len |-> Len(r.dst.gzipBase64)]

CallArgs(ins) ==
    /\ encoder \in { "multi", "single" }
    /\ input \in (IF encoder = "multi" THEN ins ELSE ins \cap SingleInputs)
    /\ order \in OrdersOf(input)
    /\ cpc = "call"
    /\ ret = NoRet
    /\ ProcessStart(NoFile)
    /\ unloadable = {}

\* the small and the wide inputs
InitCodec == CallArgs({ in \in Inputs : in.kind # "dense" })

\* every input, the dense ones at the uint16 boundary included
InitBoundary == CallArgs(Inputs)

CallMulti ==
    /\ cpc = "call"
    /\ encoder = "multi"
    /\ ret' = Returned(Encode("multi", input, order))
    /\ cpc' = "returned"
    /\ UNCHANGED << encoder, input, order >>
    /\ UNCHANGED daemonVars

CallSingle ==
    /\ cpc = "call"
    /\ encoder = "single"
    /\ ret' = Returned(Encode("single", input, order))
    /\ cpc' = "returned"
    /\ UNCHANGED << encoder, input, order >>
    /\ UNCHANGED daemonVars

NextCodec == CallMulti \/ CallSingle

SpecCodec == InitCodec /\ [][NextCodec]_vars

SpecBoundary == InitBoundary /\ [][NextCodec]_vars


(***************************************************************************)
(* Properties of the encoders.                                             *)
(***************************************************************************)
\* the strings of a map, as the bytes a decoder gives back
ExpectedMulti(pm) ==
    [k \in DOMAIN pm |-> [j \in 1..Len(pm[k]) |-> StrBytes(pm[k][j])]]

ExpectedSingle(mp) == [k \in DOMAIN mp |-> StrBytes(mp[k])]

\* the distinct values of an input
DistinctValues(in) ==
    LET pm == PrefixMapOf(in) IN UNION { Range(pm[k]) : k \in DOMAIN pm }

\* non-negative keys (the keys of a map are unique, the lists of every
\* input are non-empty)
WellFormed(in) == \A k \in DOMAIN PrefixMapOf(in) : k >= 0

\* C4: for every well-formed prefix map with at most 65535 distinct values,
\* decoding the output of intStringArrayMapToString gives back the same map,
\* the order of the values of each key included.  (Checked on the small and
\* the wide inputs.)
C4_RoundTrip ==
    ( /\ cpc = "returned"
      /\ encoder = "multi"
      /\ input.kind # "dense"
      /\ WellFormed(input)
      /\ Cardinality(DistinctValues(input)) <= MaxUint16 )
    => /\ ~ret.panic
       /\ ret.err = "nil"
       /\ decode(Result.dst, TRUE)
            = [ok |-> TRUE, map |-> ExpectedMulti(PrefixMapOf(input))]


\* C5: an encoder call on a map with 65536 (or more) distinct values fails
\* with the too-many-values error, and a call on a well-formed map with at
\* most 65535 distinct values succeeds; this holds for both encoders.
C5_Boundary ==
    cpc = "returned"
    => LET nv == Cardinality(DistinctValues(input))
       IN  /\ nv > MaxUint16 => ret.err = ErrTooManyValues
           /\ (nv <= MaxUint16 /\ WellFormed(input))
                => (ret.err = "nil" /\ ~ret.panic)

\* C6: the output of an encoder call is the output of the same call under
\* every other order in which `range` may visit the keys of the same map.
C6_Deterministic ==
    cpc = "returned"
    => \A o \in OrdersOf(input) \ { order } :
          Encode(encoder, input, o) = Result

\* C6 witness: a call that returned a blob for a map of two or more keys and
\* two or more distinct values, visited in an order that is not ascending.
C6_Witness ==
    /\ cpc = "returned"
    /\ input.kind = "small"
    /\ ~ret.panic
    /\ ret.err = "nil"
    /\ ret.len > 8
    /\ Cardinality(DOMAIN input.m) >= 2
    /\ Cardinality(DistinctValues(input)) >= 2
    /\ RangeOrder(input, order) # KeysAscending(input)


(***************************************************************************)
(* Text.  A text is the sequence of its bytes.                             *)
(***************************************************************************)
\* "|", "#", "&", " ", "-", "+", "0"
Pipe == 124
Hash == 35
Amp == 38
Space == 32
Minus == 45
Plus == 43
Digit0 == 48

\* strings.Split(s, sep) for a one-byte sep: one field more than there are
\* separators in s
RECURSIVE SplitRec(_, _, _, _)
SplitRec(s, sep, i, cur) ==
    IF i > Len(s) THEN << cur >>
    ELSE IF s[i] = sep
         THEN << cur >> \o SplitRec(s, sep, i + 1, <<>>)
         ELSE SplitRec(s, sep, i + 1, Append(cur, s[i]))

Split(s, sep) == SplitRec(s, sep, 1, <<>>)

\* strings.Join(parts, sep) for a one-byte sep
Join(parts, sep) ==
    Cat([i \in 1..Len(parts) |->
            IF i < Len(parts) THEN parts[i] \o << sep >> ELSE parts[i]],
        1, Len(parts))

\* strings.HasPrefix(s, c) for a one-byte c
HasPrefix(s, c) == Len(s) > 0 /\ s[1] = c

\* the white space of unicode.IsSpace that fits one byte of ASCII
IsSpace(c) == c \in { Space, 9, 10, 11, 12, 13 }

RECURSIVE TrimLeft(_)
TrimLeft(s) ==
    IF Len(s) > 0 /\ IsSpace(s[1]) THEN TrimLeft(Tail(s)) ELSE s

RECURSIVE TrimRight(_)
TrimRight(s) ==
    IF Len(s) > 0 /\ IsSpace(s[Len(s)])
    THEN TrimRight(SubSeq(s, 1, Len(s) - 1)) ELSE s

\* strings.TrimSpace
TrimSpace(s) == TrimRight(TrimLeft(s))

RECURSIVE DigitsValue(_, _)
DigitsValue(s, acc) ==
    IF Len(s) = 0 THEN acc
    ELSE DigitsValue(Tail(s), 10 * acc + (s[1] - Digit0))

\* strconv.Atoi: an optional sign and one or more decimal digits (texts of
\* the model are too short to overflow an int)
Atoi(s) ==
    LET signed == Len(s) > 0 /\ s[1] \in { Plus, Minus }
        digits == IF signed THEN Tail(s) ELSE s
        ok     == /\ Len(digits) > 0
                  /\ \A i \in 1..Len(digits) :
                        digits[i] \in Digit0..(Digit0 + 9)
    IN  IF ~ok THEN [ok |-> FALSE, val |-> 0]
        ELSE [ok |-> TRUE,
              val |-> IF signed /\ s[1] = Minus
                      THEN 0 - DigitsValue(digits, 0)
                      ELSE DigitsValue(digits, 0)]

(***************************************************************************)
(* readMappingsForDir(dir), lines 557-609.  files is the list of the       *)
(* bodies of the *.txt files of dir, in the order of filepath.Glob.  The   *)
(* err of the file-name check (lines 570-573) is assigned and never read.  *)
(* The result is (mappings, err).                                          *)
(***************************************************************************)
ErrUnableToParse == "unable to parse line"
ErrRepeatedPrefix == "repeated prefix for line"

\* the loop over the lines of one body, lines 575-604
RECURSIVE ReadMappingLines(_, _, _)
ReadMappingLines(lines, i, mappings) ==
    IF i > Len(lines) THEN [err |-> "nil", mappings |-> mappings]
    ELSE
      LET line   == lines[i]
          fields == Split(line, Pipe)
      IN  IF HasPrefix(line, Hash) THEN ReadMappingLines(lines, i + 1, mappings)
          ELSE IF TrimSpace(line) = <<>>
          THEN ReadMappingLines(lines, i + 1, mappings)
          ELSE IF Len(fields) # 2
          THEN ReadMappingLines(lines, i + 1, mappings)
          ELSE
            LET prefixInt == Atoi(fields[1])
            IN  IF ~prefixInt.ok \/ prefixInt.val < 0
                THEN [err |-> ErrUnableToParse, mappings |-> <<>>]
                ELSE IF prefixInt.val \in DOMAIN mappings
                THEN [err |-> ErrRepeatedPrefix, mappings |-> <<>>]
                ELSE ReadMappingLines(lines, i + 1,
                        (prefixInt.val :> fields[2]) @@ mappings)

\* the loop over the files, lines 565-605
RECURSIVE ReadMappingFiles(_, _, _)
ReadMappingFiles(files, i, mappings) ==
    IF i > Len(files) THEN [err |-> "nil", mappings |-> mappings]
    ELSE LET r == ReadMappingLines(Split(files[i], NewLine), 1, mappings)
         IN  IF r.err # "nil" THEN r
             ELSE ReadMappingFiles(files, i + 1, r.mappings)

readMappingsForDir(files) == ReadMappingFiles(files, 1, <<>>)


(***************************************************************************)
(* Paths.  filepath.Join(a, b) is Clean(a + "/" + b): empty and "."        *)
(* elements are dropped (no path of the model holds ".."), a rooted path   *)
(* stays rooted, and the empty result is ".".                              *)
(***************************************************************************)
Slash == 47
Dot == 46

Clean(path) ==
    LET elems == SelectSeq(Split(path, Slash),
                           LAMBDA e : e # <<>> /\ e # << Dot >>)
        body  == Join(elems, Slash)
    IN  IF HasPrefix(path, Slash) THEN << Slash >> \o body
        ELSE IF body = <<>> THEN << Dot >> ELSE body

filepathJoin(a, b) == Clean(a \o << Slash >> \o b)

\* one match of filepath.Glob(buildDir + "/*"): Glob cleans the directory
\* part, so a match in "." carries no "./"
GlobMatch(buildDir, name) ==
    IF buildDir = << Dot >> THEN name ELSE buildDir \o << Slash >> \o name

\* the value of a line as the string code the encoders take
CodeOf(v) == CHOOSE c \in 0..16 : StrBytes(c) = v

(***************************************************************************)
(* buildPrefixData(build, fileCacheDir), lines 442-555.  The input is      *)
(*   cacheDir  fileCacheDir                                                *)
(*   dirName   build.dir                                                   *)
(*   entries   what svnExport left in buildDir, in the order of Glob, each *)
(*             with its name, whether os.Stat succeeds on it, whether it   *)
(*             is a directory, and the bodies of its *.txt files.          *)
(* The result is (prefixDataMap, err) or a panic: fi is nil when os.Stat   *)
(* fails, and fi.IsDir() then dereferences nil (lines 460-461).            *)
(***************************************************************************)
\* the first loop, lines 458-477
RECURSIVE ReadLanguages(_, _, _, _)
ReadLanguages(buildDir, entries, i, languageMappings) ==
    IF i > Len(entries)
    THEN [panic |-> FALSE, err |-> "nil", languageMappings |-> languageMappings]
    ELSE
      LET e     == entries[i]
          dir   == GlobMatch(buildDir, e.name)
          parts == Split(dir, Slash)
          r     == readMappingsForDir(e.files)
      IN  IF ~e.statOk
          THEN [panic |-> TRUE, err |-> "nil", languageMappings |-> <<>>]
          ELSE IF ~e.isDir
          THEN ReadLanguages(buildDir, entries, i + 1, languageMappings)
          ELSE IF r.err # "nil"
          THEN [panic |-> FALSE, err |-> r.err, languageMappings |-> <<>>]
          ELSE IF Len(parts) < 2
          THEN [panic |-> TRUE, err |-> "nil", languageMappings |-> <<>>]
          ELSE ReadLanguages(buildDir, entries, i + 1,
                  (parts[2] :> r.mappings) @@ languageMappings)

\* the second loop for one language, lines 479-551
EncodeLanguage(mappings) ==
    encodeMappings([k \in DOMAIN mappings |-> CodeOf(mappings[k])],
                   KeyList(DOMAIN mappings))

buildPrefixData(in) ==
    LET buildDir == filepathJoin(in.cacheDir, in.dirName)
        read     == ReadLanguages(buildDir, in.entries, 1, <<>>)
        lm       == read.languageMappings
        enc      == [lang \in DOMAIN lm |-> EncodeLanguage(lm[lang])]
    IN  IF read.panic \/ read.err # "nil"
        THEN [panic |-> read.panic, err |-> read.err, prefixDataMap |-> <<>>]
        ELSE IF \E lang \in DOMAIN lm : enc[lang].panic
        THEN [panic |-> TRUE, err |-> "nil", prefixDataMap |-> <<>>]
        ELSE IF \E lang \in DOMAIN lm : enc[lang].err # "nil"
        THEN [panic |-> FALSE, err |-> ErrTooManyValues, prefixDataMap |-> <<>>]
        ELSE [panic |-> FALSE, err |-> "nil",
              prefixDataMap |-> [lang \in DOMAIN lm |-> enc[lang].dst]]

(***************************************************************************)
(* buildTimezones(), lines 315-358.  body is what fetchURL(tzURL) returned.*)
(* The result is (result, err) or a panic of the encoder; prefixMap is the *)
(* map handed to the encoder.  An error of the encoder is answered with    *)
(* ("", nil), line 355.                                                    *)
(***************************************************************************)
ErrInvalidFormat == "invalid format in timezone file"
ErrInvalidPrefix == "invalid prefix in line"

\* the loop over the lines, lines 324-352
RECURSIVE ReadZoneLines(_, _, _)
ReadZoneLines(lines, i, prefixMap) ==
    IF i > Len(lines) THEN [err |-> "nil", prefixMap |-> prefixMap]
    ELSE
      LET line   == lines[i]
          fields == Split(line, Pipe)
      IN  IF HasPrefix(line, Hash) THEN ReadZoneLines(lines, i + 1, prefixMap)
          ELSE IF TrimSpace(line) = <<>>
          THEN ReadZoneLines(lines, i + 1, prefixMap)
          ELSE IF Len(fields) # 2
          THEN [err |-> ErrInvalidFormat, prefixMap |-> <<>>]
          ELSE
            LET zones  == Split(fields[2], Amp)
                prefix == Atoi(fields[1])
            IN  IF Len(zones) < 1
                THEN [err |-> ErrInvalidFormat, prefixMap |-> <<>>]
                ELSE IF ~prefix.ok
                THEN [err |-> ErrInvalidPrefix, prefixMap |-> <<>>]
                ELSE ReadZoneLines(lines, i + 1,
                        (prefix.val :> zones) @@ prefixMap)

buildTimezones(body) ==
    LET read == ReadZoneLines(Split(body, NewLine), 1, <<>>)
        pm   == read.prefixMap
        enc  == intStringArrayMapToString(
                  [k \in DOMAIN pm |->
                     [j \in 1..Len(pm[k]) |-> CodeOf(pm[k][j])]],
                  KeyList(DOMAIN pm))
    IN  IF read.err # "nil"
        THEN [panic |-> FALSE, err |-> read.err, prefixMap |-> <<>>,
              dst |-> gzipBytesAndBase64(<<>>)]
        ELSE IF enc.panic
        THEN [panic |-> TRUE, err |-> "nil", prefixMap |-> pm,
              dst |-> gzipBytesAndBase64(<<>>)]
        ELSE IF enc.err # "nil"
        THEN [panic |-> FALSE, err |-> "nil", prefixMap |-> pm,
              dst |-> gzipBytesAndBase64(<<>>)]
        ELSE [panic |-> FALSE, err |-> "nil", prefixMap |-> pm,
              dst |-> enc.dst]

(***************************************************************************)
(* Inputs of the parsers: texts of up to MaxLines lines, drawn from lines  *)
(* of each shape the parsers tell apart.  "AAAA", "AAAB" are values,       *)
(* "AAAC" is a prefix that is no number.                                   *)
(***************************************************************************)
Digit(n) == << Digit0 + n >>

\* "1|AAAA", "1|AAAB", "2|AAAA": prefix and value
\* "AAAC|AAAA": the prefix is no number     "-1|AAAA": a negative prefix
\* "1 AAAA": no pipe                        "1|AAAA|AAAB": three fields
\* "#1|AAAA": a comment                     " ": a blank line
\* "1| ": a blank value
MappingLines ==
    { Digit(1) \o << Pipe >> \o StrBytes(1),
      Digit(1) \o << Pipe >> \o StrBytes(2),
      Digit(2) \o << Pipe >> \o StrBytes(1),
      StrBytes(3) \o << Pipe >> \o StrBytes(1),
      << Minus >> \o Digit(1) \o << Pipe >> \o StrBytes(1),
      Digit(1) \o << Space >> \o StrBytes(1),
      Digit(1) \o << Pipe >> \o StrBytes(1) \o << Pipe >> \o StrBytes(2),
      << Hash >> \o Digit(1) \o << Pipe >> \o StrBytes(1),
      << Space >>,
      Digit(1) \o << Pipe, Space >> }

\* the texts of one to MaxLines lines of L
Bodies(L) ==
    { Join(ls, NewLine) : ls \in UNION { [1..n -> L] : n \in 1..MaxLines } }

\* the *.txt files of one language directory
FileLists ==
    UNION { [1..n -> Bodies(MappingLines)] : n \in 1..MaxFiles }

\* "1|AAAA&AAAB", "1|AAAB", "2|AAAA": prefix and zones
\* "1|": no zone name                       "-1|AAAA": a negative prefix
\* "AAAC|AAAA": the prefix is no number     "1 AAAA": no pipe
\* "1|AAAA|AAAB": three fields
\* "#1|AAAA": a comment                     " ": a blank line
ZoneLines ==
    { Digit(1) \o << Pipe >> \o StrBytes(1) \o << Amp >> \o StrBytes(2),
      Digit(1) \o << Pipe >> \o StrBytes(2),
      Digit(2) \o << Pipe >> \o StrBytes(1),
      Digit(1) \o << Pipe >>,
      << Minus >> \o Digit(1) \o << Pipe >> \o StrBytes(1),
      StrBytes(3) \o << Pipe >> \o StrBytes(1),
      Digit(1) \o << Space >> \o StrBytes(1),
      Digit(1) \o << Pipe >> \o StrBytes(1) \o << Pipe >> \o StrBytes(2),
      << Hash >> \o Digit(1) \o << Pipe >> \o StrBytes(1),
      << Space >> }

\* the lines of the files under a fetched language tree
TreeLines ==
    { Digit(1) \o << Pipe >> \o StrBytes(1),
      Digit(1) \o << Pipe >> \o StrBytes(2),
      Digit(2) \o << Pipe >> \o StrBytes(1),
      StrBytes(3) \o << Pipe >> \o StrBytes(1) }

\* "/tmp/p" (the shape of the default, "/tmp/phonenumbersCacheDir"), "/p",
\* "p" and "."
CacheDirs ==
    { << Slash, 116, 109, 112, Slash, 112 >>, << Slash, 112 >>, << 112 >>,
      << Dot >> }

\* carrier.dir: "carrier"
CarrierDir == << 99, 97, 114, 114, 105, 101, 114 >>

\* "en", "zh": the names Glob finds, in its (sorted) order
LangNames == << << 101, 110 >>, << 122, 104 >> >>

\* what may be under one name: nothing, an entry os.Stat fails on, a plain
\* file, or a directory with one *.txt file
EntryChoices(name) ==
    { [present |-> FALSE, name |-> name, statOk |-> TRUE, isDir |-> FALSE,
       files |-> <<>>],
      [present |-> TRUE, name |-> name, statOk |-> FALSE, isDir |-> FALSE,
       files |-> <<>>],
      [present |-> TRUE, name |-> name, statOk |-> TRUE, isDir |-> FALSE,
       files |-> <<>>] }
    \cup { [present |-> TRUE, name |-> name, statOk |-> TRUE, isDir |-> TRUE,
            files |-> << b >>] : b \in Bodies(TreeLines) }

Trees ==
    { [cacheDir |-> c, dirName |-> CarrierDir,
       entries |-> SelectSeq(<< a, b >>, LAMBDA e : e.present)] :
        c \in CacheDirs, a \in EntryChoices(LangNames[1]),
        b \in EntryChoices(LangNames[2]) }

ParseInput(k, x) == [kind |-> k, n |-> 0, m |-> x]

(***************************************************************************)
(* SpecParse: one call of a parser.  The call is described by the          *)
(* variables of SpecCodec: encoder names the function, input.m is its      *)
(* input, ret is (panic, err, number of entries built).                    *)
(***************************************************************************)
ParseArgs(name, inputs) ==
    /\ encoder = name
    /\ input \in { ParseInput(name, x) : x \in inputs }
    /\ order = [rev |-> FALSE, rot |-> 0]
    /\ cpc = "call"
    /\ ret = NoRet
    /\ ProcessStart(NoFile)
    /\ unloadable = {}

ParseReturn(panic, err, n) ==
    /\ ret' = [panic |-> panic, err |-> err, len |-> n]
    /\ cpc' = "returned"
    /\ UNCHANGED << encoder, input, order >>
    /\ UNCHANGED daemonVars

CallReadMappings ==
    /\ cpc = "call"
    /\ encoder = "readMappingsForDir"
    /\ LET r == readMappingsForDir(input.m)
       IN  ParseReturn(FALSE, r.err, Cardinality(DOMAIN r.mappings))

CallBuildPrefixData ==
    /\ cpc = "call"
    /\ encoder = "buildPrefixData"
    /\ LET r == buildPrefixData(input.m)
       IN  ParseReturn(r.panic, r.err, Cardinality(DOMAIN r.prefixDataMap))

CallBuildTimezones ==
    /\ cpc = "call"
    /\ encoder = "buildTimezones"
    /\ LET r == buildTimezones(input.m)
       IN  ParseReturn(r.panic, r.err, Cardinality(DOMAIN r.prefixMap))

InitParse ==
    \/ ParseArgs("readMappingsForDir", FileLists)
    \/ ParseArgs("buildTimezones", Bodies(ZoneLines))
    \/ ParseArgs("buildPrefixData", Trees)

NextParse ==
    \/ CallReadMappings
    \/ CallBuildTimezones
    \/ CallBuildPrefixData

SpecParse == InitParse /\ [][NextParse]_vars

(***************************************************************************)
(* Properties of the parsers.                                              *)
(***************************************************************************)
\* the lines of a list of texts, in order
AllLines(files) ==
    Cat([i \in 1..Len(files) |-> Split(files[i], NewLine)], 1, Len(files))

IsComment(line) == HasPrefix(line, Hash)
IsBlank(line) == TrimSpace(line) = <<>>

\* a line "<prefix>|<value>" with a prefix that is a number, not negative
IsMappingLine(line) ==
    /\ ~IsComment(line)
    /\ ~IsBlank(line)
    /\ Len(Split(line, Pipe)) = 2
    /\ Atoi(Split(line, Pipe)[1]).ok
    /\ Atoi(Split(line, Pipe)[1]).val >= 0

PrefixOf(line) == Atoi(Split(line, Pipe)[1]).val

\* C11: readMappingsForDir skips every line that is not a well-formed
\* "<prefix>|<value>" line (for example "notanumber|Foo") without failing,
\* and fails when a valid prefix appears twice in the files of the language;
\* otherwise it returns the mapping of every valid line.
C11_SkipMalformedFailRepeated ==
    (cpc = "returned" /\ encoder = "readMappingsForDir") =>
        LET lines  == SelectSeq(AllLines(input.m), IsMappingLine)
            repeat == \E i, j \in 1..Len(lines) :
                         i < j /\ PrefixOf(lines[i]) = PrefixOf(lines[j])
            r      == readMappingsForDir(input.m)
        IN  IF repeat THEN ret.err = ErrRepeatedPrefix
            ELSE /\ ret.err = "nil"
                 /\ DOMAIN r.mappings
                      = { PrefixOf(lines[i]) : i \in 1..Len(lines) }
                 /\ \A i \in 1..Len(lines) :
                       r.mappings[PrefixOf(lines[i])]
                         = Split(lines[i], Pipe)[2]


\* the language directories of a tree
LanguageDirs(tree) ==
    { i \in 1..Len(tree.entries) : tree.entries[i].isDir }

\* C12: a call of buildPrefixData that returns a map returns one blob for
\* each language directory of the tree, under the name of that directory,
\* and the blob encodes the mappings read from that directory; this holds
\* for every cache directory path.
C12_OneBlobPerLanguage ==
    ( /\ cpc = "returned"
      /\ encoder = "buildPrefixData"
      /\ ~ret.panic
      /\ ret.err = "nil" )
    => LET tree == input.m
           r    == buildPrefixData(tree)
       IN  /\ DOMAIN r.prefixDataMap
                = { tree.entries[i].name : i \in LanguageDirs(tree) }
           /\ \A i \in LanguageDirs(tree) :
                 r.prefixDataMap[tree.entries[i].name]
                   = EncodeLanguage(
                       readMappingsForDir(tree.entries[i].files).mappings).dst


\* a line of the timezone file that is neither a comment nor blank
IsDataLine(line) == ~IsComment(line) /\ ~IsBlank(line)

\* a line "<prefix>|<zone1>&<zone2>&...": two fields, the first an integer
IsZoneLine(line) ==
    /\ IsDataLine(line)
    /\ Len(Split(line, Pipe)) = 2
    /\ Atoi(Split(line, Pipe)[1]).ok

\* C15: buildTimezones ignores comment and blank lines; when every other
\* line is "<prefix>|<zone1>&<zone2>&..." with an integer prefix, it builds
\* for each such line the entry prefix -> [zone1, zone2, ...] in that order;
\* when some other line is not of that form it returns an error.
C15_TimezoneLines ==
    (cpc = "returned" /\ encoder = "buildTimezones") =>
        LET lines == SelectSeq(Split(input.m, NewLine), IsDataLine)
            r     == buildTimezones(input.m)
        IN  IF \E i \in 1..Len(lines) : ~IsZoneLine(lines[i])
            THEN ~ret.panic /\ ret.err # "nil"
            ELSE /\ ~ret.panic
                 /\ ret.err = "nil"
                 /\ \A i \in 1..Len(lines) :
                       /\ PrefixOf(lines[i]) \in DOMAIN r.prefixMap
                       /\ r.prefixMap[PrefixOf(lines[i])]
                            = Split(Split(lines[i], Pipe)[2], Amp)


(***************************************************************************)
(* The refresh daemon.                                                     *)
(***************************************************************************)
\* the cache file when the process first starts: none, one that is no JSON,
\* or the JSON of snapshot 1
InitialFiles ==
    { NoFile, [state |-> "garbage", id |-> 0], [state |-> "full", id |-> 1] }

Init ==
    /\ NoCall
    /\ \E f \in InitialFiles : ProcessStart(f)
    /\ unloadable \in (IF file.state = "full" THEN { {}, {1} } ELSE { {} })

\* loadDataAndAtomicReplaceVar() reads the published variables and fails on
\* data it cannot load
LoadOk == \A f \in Fields : pub[f] \notin unloadable

\* update() returns res to InitAutoUpdateDaemon (line 46) or to the loop of
\* the goroutine (line 61)
Return(d, res) ==
    /\ result' = [result EXCEPT ![d] = res]
    /\ pc' = [pc EXCEPT ![d] = "returned"]

\* update() is entered
EnterUpdate(d) ==
    /\ pc' = [pc EXCEPT ![d] = "fetch"]
    /\ stepFailed' = [stepFailed EXCEPT ![d] = FALSE]
    /\ stored' = [stored EXCEPT ![d] = FALSE]
    /\ result' = [result EXCEPT ![d] = "none"]

\* InitAutoUpdateDaemon is called (lines 30-42); the calls are numbered in
\* the order in which they are made
Start(d) ==
    /\ pc[d] = "idle"
    /\ \A e \in Daemons : e < d => pc[e] # "idle"
    /\ pc' = [pc EXCEPT ![d] = "read"]
    /\ UNCHANGED codecVars
    /\ UNCHANGED << mode, m, pidx, seen, stepFailed, stored, result, pub, file,
                    unloadable, builds, rpc, obs, vpc, vret, crashes, closed >>

\* initFromCache: readFromFileCache fails (no file, or no JSON in it), and
\* InitAutoUpdateDaemon goes on to update()
InitReadFails(d) ==
    /\ pc[d] = "read"
    /\ file.state # "full"
    /\ seen' = [seen EXCEPT ![d] = [state |-> "unreadable", id |-> 0]]
    /\ EnterUpdate(d)
    /\ UNCHANGED codecVars
    /\ UNCHANGED << mode, m, pidx, pub, file, unloadable, builds, rpc, obs,
                    vpc, vret,
                    crashes, closed >>

\* initFromCache: readFromFileCache succeeds
InitReadOk(d) ==
    /\ pc[d] = "read"
    /\ file.state = "full"
    /\ m' = [m EXCEPT ![d] = file.id]
    /\ seen' = [seen EXCEPT ![d] =
                  [state |-> IF file.id \in unloadable
                             THEN "malformed" ELSE "wellformed",
                   id |-> file.id]]
    /\ pidx' = [pidx EXCEPT ![d] = 0]
    /\ pc' = [pc EXCEPT ![d] = "initstore"]
    /\ UNCHANGED codecVars
    /\ UNCHANGED << mode, stepFailed, stored, result, pub, file, unloadable,
                    builds, rpc, obs, vpc, vret, crashes, closed >>

\* one Store of atomicReplaceeMetadataVar(m), lines 94-99
atomicReplaceeMetadataVar(d, next) ==
    /\ pub' = [pub EXCEPT ![pidx[d] + 1] = m[d]]
    /\ pidx' = [pidx EXCEPT ![d] = pidx[d] + 1]
    /\ pc' = [pc EXCEPT ![d] = IF pidx[d] + 1 = NumFields THEN next ELSE pc[d]]

\* initFromCache, line 142
InitStore(d) ==
    /\ pc[d] = "initstore"
    /\ atomicReplaceeMetadataVar(d, "initload")
    /\ UNCHANGED codecVars
    /\ UNCHANGED << mode, m, seen, stepFailed, stored, result, file, unloadable,
                    builds, rpc, obs, vpc, vret, crashes, closed >>

\* initFromCache, lines 143-146, and lines 44-54 of InitAutoUpdateDaemon
InitLoad(d) ==
    /\ pc[d] = "initload"
    /\ IF LoadOk
       THEN /\ pc' = [pc EXCEPT ![d] = "returned"]
            /\ UNCHANGED << stepFailed, stored, result >>
       ELSE EnterUpdate(d)
    /\ UNCHANGED codecVars
    /\ UNCHANGED << mode, m, pidx, seen, pub, file, unloadable, builds, rpc,
                    obs, vpc, vret, crashes, closed >>

\* fetchLatestMetadata: one of the five build steps returns an error, and
\* update() returns it
FetchFails(d) ==
    /\ pc[d] = "fetch"
    /\ stepFailed' = [stepFailed EXCEPT ![d] = TRUE]
    /\ Return(d, "error")
    /\ UNCHANGED codecVars
    /\ UNCHANGED << mode, m, pidx, seen, stored, pub, file, unloadable, builds,
                    rpc, obs, vpc, vret, crashes, closed >>

\* some input makes a build step of fetchLatestMetadata panic: a timezone
\* file (PutUvarint in intStringArrayMapToString) or a language tree (fi is
\* nil in buildPrefixData)
BuildCanPanic ==
    \/ \E body \in Bodies(ZoneLines) : buildTimezones(body).panic
    \/ \E tree \in Trees : buildPrefixData(tree).panic

\* fetchLatestMetadata panics.  Nothing in update.go recovers: the panic
\* leaves update() and ends the process (in the goroutine of the timer
\* always; at startup unless the host recovers, which is not modelled).
FetchPanics(d) ==
    /\ pc[d] = "fetch"
    /\ BuildCanPanic
    /\ pc' = [e \in Daemons |-> "dead"]
    /\ result' = [e \in Daemons |-> IF e = d THEN "panic" ELSE "none"]
    /\ m' = [e \in Daemons |-> 0]
    /\ pidx' = [e \in Daemons |-> 0]
    /\ seen' = [e \in Daemons |-> NotRead]
    /\ stepFailed' = [e \in Daemons |-> FALSE]
    /\ stored' = [e \in Daemons |-> FALSE]
    /\ pub' = [f \in Fields |-> 0]
    /\ rpc' = 0
    /\ obs' = [f \in Fields |-> 0]
    /\ vpc' = "idle"
    /\ vret' = 0
    /\ UNCHANGED codecVars
    /\ UNCHANGED << mode, file, unloadable, builds, crashes, closed >>

\* fetchLatestMetadata returns a snapshot.  marshalErr: proto.Marshal failed
\* in buildMetadata, which sets err and then returns nil (lines 233-237).
\* loadable: whether loadDataAndAtomicReplaceVar can load what was built.
FetchOk(d, marshalErr, loadable) ==
    /\ pc[d] = "fetch"
    /\ builds < MaxBuilds
    /\ builds' = builds + 1
    /\ m' = [m EXCEPT ![d] = builds + 2]
    /\ unloadable' = IF loadable THEN unloadable ELSE unloadable \cup { builds + 2 }
    /\ stepFailed' = [stepFailed EXCEPT ![d] = marshalErr]
    /\ pc' = [pc EXCEPT ![d] = "store"]
    /\ UNCHANGED codecVars
    /\ UNCHANGED << mode, pidx, seen, stored, result, pub, file, rpc, obs,
                    vpc, vret,
                    crashes, closed >>

\* storeFileCache: ioutil.WriteFile cannot open the file
StoreOpenFails(d) ==
    /\ pc[d] = "store"
    /\ stepFailed' = [stepFailed EXCEPT ![d] = TRUE]
    /\ Return(d, "error")
    /\ UNCHANGED codecVars
    /\ UNCHANGED << mode, m, pidx, seen, stored, pub, file, unloadable, builds,
                    rpc, obs, vpc, vret, crashes, closed >>

\* storeFileCache: ioutil.WriteFile opens the file with O_TRUNC
StoreOpen(d) ==
    /\ pc[d] = "store"
    /\ file' = [state |-> "partial", id |-> m[d]]
    /\ pc' = [pc EXCEPT ![d] = "write"]
    /\ UNCHANGED codecVars
    /\ UNCHANGED << mode, m, pidx, seen, stepFailed, stored, result, pub,
                    unloadable, builds, rpc, obs, vpc, vret, crashes, closed >>

\* StoreWriteFails with the error of storeFileCache ignored: update() goes
\* on to publish
StoreWriteFailsIgnored(d) ==
    /\ pc[d] = "write"
    /\ file' = [state |-> "partial", id |-> m[d]]
    /\ stepFailed' = [stepFailed EXCEPT ![d] = TRUE]
    /\ pidx' = [pidx EXCEPT ![d] = 0]
    /\ pc' = [pc EXCEPT ![d] = "publish"]
    /\ UNCHANGED codecVars
    /\ UNCHANGED << mode, m, seen, stored, result, pub, unloadable, builds, rpc,
                    obs, vpc, vret, crashes, closed >>

\* storeFileCache: the write fails part-way (lines 129-132)
StoreWriteFails(d) ==
    /\ pc[d] = "write"
    /\ file' = [state |-> "partial", id |-> m[d]]
    /\ stepFailed' = [stepFailed EXCEPT ![d] = TRUE]
    /\ Return(d, "error")
    /\ UNCHANGED codecVars
    /\ UNCHANGED << mode, m, pidx, seen, stored, pub, unloadable, builds, rpc,
                    obs, vpc, vret, crashes, closed >>

\* storeFileCache: the write completes
StoreWrite(d) ==
    /\ pc[d] = "write"
    /\ file' = [state |-> "full", id |-> m[d]]
    /\ pidx' = [pidx EXCEPT ![d] = 0]
    /\ pc' = [pc EXCEPT ![d] = "publish"]
    /\ UNCHANGED codecVars
    /\ UNCHANGED << mode, m, seen, stepFailed, stored, result, pub, unloadable,
                    builds, rpc, obs, vpc, vret, crashes, closed >>

\* update(), line 158
Publish(d) ==
    /\ pc[d] = "publish"
    /\ atomicReplaceeMetadataVar(d, "load")
    /\ stored' = [stored EXCEPT ![d] = TRUE]
    /\ UNCHANGED codecVars
    /\ UNCHANGED << mode, m, seen, stepFailed, result, file, unloadable, builds,
                    rpc, obs, vpc, vret, crashes, closed >>

\* update(), lines 159-162
Load(d) ==
    /\ pc[d] = "load"
    /\ Return(d, IF LoadOk THEN "ok" ELSE "error")
    /\ UNCHANGED codecVars
    /\ UNCHANGED << mode, m, pidx, seen, stepFailed, stored, pub, file,
                    unloadable, builds, rpc, obs, vpc, vret, crashes, closed >>

\* what follows initFromCache or update(): the log lines 47-54 and the start
\* of the goroutine with its ticker (lines 55-58), or the log lines 62-66 of
\* the goroutine.  The locals of the call are gone.
AfterUpdate(d) ==
    /\ pc[d] = "returned"
    /\ pc' = [pc EXCEPT ![d] = "wait"]
    /\ mode' = [mode EXCEPT ![d] = "timer"]
    /\ m' = [m EXCEPT ![d] = 0]
    /\ pidx' = [pidx EXCEPT ![d] = 0]
    /\ seen' = [seen EXCEPT ![d] = NotRead]
    /\ stepFailed' = [stepFailed EXCEPT ![d] = FALSE]
    /\ stored' = [stored EXCEPT ![d] = FALSE]
    /\ result' = [result EXCEPT ![d] = "none"]
    /\ UNCHANGED codecVars
    /\ UNCHANGED << pub, file, unloadable, builds, rpc, obs, vpc, vret,
                    crashes, closed >>

\* case <-ticker.C: err := update(fileCacheDir), lines 60-61.  The ticks are
\* counted out with the builds.
Tick(d) ==
    /\ pc[d] = "wait"
    /\ builds < MaxBuilds
    /\ EnterUpdate(d)
    /\ UNCHANGED codecVars
    /\ UNCHANGED << mode, m, pidx, seen, pub, file, unloadable, builds, rpc,
                    obs, vpc, vret, crashes, closed >>

\* a reader loads the published variables one after the other
ReadField ==
    /\ rpc < NumFields
    /\ \E d \in Daemons : pc[d] # "idle"
    /\ obs' = [obs EXCEPT ![rpc + 1] = pub[rpc + 1]]
    /\ rpc' = rpc + 1
    /\ UNCHANGED codecVars
    /\ UNCHANGED << pc, mode, m, pidx, seen, stepFailed, stored, result, pub,
                    file, unloadable, builds, vpc, vret, crashes, closed >>

\* the reader has what it loaded and returns
ReadDone ==
    /\ rpc = NumFields
    /\ rpc' = NumFields + 1
    /\ obs' = [f \in Fields |-> 0]
    /\ UNCHANGED codecVars
    /\ UNCHANGED << pc, mode, m, pidx, seen, stepFailed, stored, result, pub,
                    file, unloadable, builds, vpc, vret, crashes, closed >>

\* what the daemon does not store to in a step of getVersion
GetVersionFrame ==
    /\ UNCHANGED codecVars
    /\ UNCHANGED << pc, mode, m, pidx, seen, stepFailed, stored, result, file,
                    unloadable, builds, rpc, obs, crashes, closed >>

\* getVersion, line 77: _version.Load() == nil
GetVersionCheck ==
    /\ vpc = "idle"
    /\ vpc' = IF pub[NumFields] = 0 THEN "store" ELSE "load"
    /\ UNCHANGED << pub, vret >>
    /\ GetVersionFrame

\* getVersion, line 78: _version.Store("2019-11-12T00:00:00Z")
GetVersionStore ==
    /\ vpc = "store"
    /\ pub' = [pub EXCEPT ![NumFields] = DefaultVersion]
    /\ vpc' = "load"
    /\ UNCHANGED vret
    /\ GetVersionFrame

\* getVersion, line 80: return _version.Load().(string)
GetVersionLoad ==
    /\ vpc = "load"
    /\ vret' = pub[NumFields]
    /\ vpc' = "done"
    /\ UNCHANGED pub
    /\ GetVersionFrame

\* the caller of getVersion has its answer; the next call may follow
GetVersionDone ==
    /\ vpc = "done"
    /\ vpc' = "idle"
    /\ vret' = 0
    /\ UNCHANGED pub
    /\ GetVersionFrame

\* the process dies and is started again: the memory is lost, the cache
\* file stays
Crash ==
    /\ crashes < MaxCrashes
    /\ \E d \in Daemons : pc[d] # "idle"
    /\ crashes' = crashes + 1
    /\ pc' = [d \in Daemons |-> "idle"]
    /\ mode' = [d \in Daemons |-> "startup"]
    /\ m' = [d \in Daemons |-> 0]
    /\ pidx' = [d \in Daemons |-> 0]
    /\ seen' = [d \in Daemons |-> NotRead]
    /\ stepFailed' = [d \in Daemons |-> FALSE]
    /\ stored' = [d \in Daemons |-> FALSE]
    /\ result' = [d \in Daemons |-> "none"]
    /\ pub' = [f \in Fields |-> 0]
    /\ rpc' = 0
    /\ obs' = [f \in Fields |-> 0]
    /\ vpc' = "idle"
    /\ vret' = 0
    /\ closed' = FALSE
    /\ UNCHANGED codecVars
    /\ UNCHANGED << file, unloadable, builds >>

\* the host asks for shutdown.  update.go has no operation for it: nothing
\* in the daemon reads the request.
Shutdown ==
    /\ ~closed
    /\ \E d \in Daemons : mode[d] = "timer"
    /\ closed' = TRUE
    /\ UNCHANGED codecVars
    /\ UNCHANGED << pc, mode, m, pidx, seen, stepFailed, stored, result, pub,
                    file, unloadable, builds, rpc, obs, vpc, vret, crashes >>

DaemonStep(d) ==
    \/ Start(d)
    \/ InitReadFails(d)
    \/ InitReadOk(d)
    \/ InitStore(d)
    \/ InitLoad(d)
    \/ FetchFails(d)
    \/ FetchPanics(d)
    \/ \E marshalErr \in BOOLEAN, loadable \in BOOLEAN :
          FetchOk(d, marshalErr, loadable)
    \/ StoreOpenFails(d)
    \/ StoreOpen(d)
    \/ StoreWriteFails(d)
    \/ StoreWrite(d)
    \/ Publish(d)
    \/ Load(d)
    \/ AfterUpdate(d)
    \/ Tick(d)

Next ==
    \/ \E d \in Daemons : DaemonStep(d)
    \/ Crash
    \/ Shutdown

Spec == Init /\ [][Next]_vars

\* one call of InitAutoUpdateDaemon, and a reader of the published variables
FirstDaemon == { d \in Daemons : \A e \in Daemons : d <= e }

NextReader ==
    \/ \E d \in FirstDaemon : DaemonStep(d)
    \/ ReadField
    \/ ReadDone

SpecReader == Init /\ [][NextReader]_vars

\* one call of InitAutoUpdateDaemon, and callers of getVersion
NextVersion ==
    \/ \E d \in FirstDaemon : DaemonStep(d)
    \/ GetVersionCheck
    \/ GetVersionStore
    \/ GetVersionLoad
    \/ GetVersionDone

SpecVersion == Init /\ [][NextVersion]_vars

(***************************************************************************)
(* Properties of the refresh daemon.                                       *)
(***************************************************************************)
\* the reader has loaded all six variables and holds a snapshot in each
ReadComplete == rpc = NumFields /\ \A f \in Fields : obs[f] # 0

\* C1: a reader that loads the six published variables while a publish is in
\* progress sees them all from one snapshot, never some from the old snapshot
\* and some from the new one.
C1_NoTornRead ==
    ReadComplete => \A f, g \in Fields : obs[f] = obs[g]

\* C2: when a fetch-and-encode step or the persisting of the cache fails in
\* a call of update(), that call stores no published variable.
C2_FailedStepStoresNothing ==
    \A d \in Daemons : stepFailed[d] => ~stored[d]

\* C3: when update() returns an error, the call has stored no published
\* variable: the snapshot and the version are those of before the call.
C3_ErrorLeavesPublished ==
    \A d \in Daemons :
        (pc[d] = "returned" /\ result[d] = "error") => ~stored[d]

\* the steps of update() that write the cache file or store the variables
Writing(d) == pc[d] \in { "write", "publish" }

\* C7: two calls of update() are never at the same time in the writing of
\* the cache file or in the publishing of the variables.
C7_OneRefreshAtATime ==
    \A d, e \in Daemons : (d # e /\ Writing(d)) => ~Writing(e)

\* the first read of the cache file by a process started after a crash
StartupAfterCrash ==
    /\ crashes > 0
    /\ \E d \in Daemons :
          /\ pc[d] = "read"
          /\ \A e \in Daemons \ { d } : pc[e] = "idle"

\* C8: the cache file that a startup after a crash reads is a complete
\* snapshot (the previous one or the new one) or the file the process first
\* found, never a half-written one.
C8_NoHalfWrittenCache ==
    StartupAfterCrash => file.state # "partial"

\* InitAutoUpdateDaemon is about to start the goroutine of the timer
StartupDone(d) == pc[d] = "returned" /\ mode[d] = "startup"

\* the snapshots read from a cache file that loadDataAndAtomicReplaceVar
\* rejected in this start of the process
MalformedSeen ==
    { seen[d].id : d \in { e \in Daemons : seen[e].state = "malformed" } }

\* C9: at the end of startup, a well-formed cache was published with no
\* call of update(); with an absent or malformed cache update() has been
\* called and has returned; and no published variable holds data of a
\* malformed cache.
C9_Startup ==
    \A d \in Daemons :
        StartupDone(d) =>
            /\ seen[d].state = "wellformed" => result[d] = "none"
            /\ seen[d].state # "wellformed" => result[d] \in { "ok", "error" }
            /\ \A f \in Fields : pub[f] \notin MalformedSeen

\* the process goes on from this state to the next
SameProcess == crashes' = crashes /\ \A d \in Daemons : pc'[d] # "dead"

\* C10: once shutdown is requested, no tick starts a call of update() and no
\* published variable is stored.
C10_Shutdown ==
    [][ (closed /\ SameProcess) =>
            /\ pub' = pub
            /\ \A d \in Daemons : ~(pc[d] = "wait" /\ pc'[d] = "fetch") ]_vars

\* C13: no call of update() made by the goroutine of the timer ends the
\* process: whatever a refresh fetched, the loop is there for the next tick.
C13_LoopSurvives ==
    \A d \in Daemons :
        ~(pc[d] = "dead" /\ result[d] = "panic" /\ mode[d] = "timer")

\* C14: a call of getVersion never returns the built-in default, which has
\* the form of a published version, for a store nothing was published to.
C14_NotInitializedSignal ==
    vpc = "done" => vret # DefaultVersion

\* C17: no step of getVersion replaces a published version by the built-in
\* default.
C17_ReadsLeavePublished ==
    [][ (vpc' # vpc /\ pub[NumFields] > 0) => pub'[NumFields] = pub[NumFields]
      ]_vars

\* C16: update() stores a snapshot to the published variables only after
\* storeFileCache has written that same snapshot completely: a call starts
\* to publish only from the step that completes the write of its snapshot,
\* and stores only what it was about to publish.
C16_PersistBeforePublish ==
    [][ \A d \in Daemons :
          /\ (pc'[d] = "publish" /\ pc[d] # "publish") =>
                /\ pc[d] = "write"
                /\ file' = [state |-> "full", id |-> m[d]]
                /\ m'[d] = m[d]
          /\ (stored'[d] /\ ~stored[d]) =>
                /\ pc[d] = "publish"
                /\ pub'[1] = m[d]
      ]_vars

\* C16 witness: a call of update() has published its snapshot, and the cache
\* file holds that snapshot completely.
C16_Witness ==
    \E d \in Daemons :
        /\ pc[d] = "load"
        /\ stored[d]
        /\ \A f \in Fields : pub[f] = m[d]
        /\ file = [state |-> "full", id |-> m[d]]

\* C18: while the process runs, no store to _version replaces a version by
\* an older one (snapshots are numbered in the order of their versions).
C18_VersionNeverGoesBack ==
    [][ SameProcess => pub'[NumFields] >= pub[NumFields] ]_vars

====
